---- MODULE Spec2Model ----
(***************************************************************************)
(* Model of giza's asset synchronisation (giza/content/assets.py) over the *)
(* git command proxy (giza/core/git.py).                                   *)
(*                                                                         *)
(* A revision is a sequence of hex digits, a path a sequence of            *)
(* components.  Every git subcommand is a blocking step that either        *)
(* succeeds with its effect on the repository found in its directory or    *)
(* fails (CommandError) leaving the file system as it was.                 *)
(***************************************************************************)
EXTENDS Integers, Sequences, FiniteSets, TLC

\* ------------------------------------------------------------------ bounds
RevLen == 2                     \* length of a full revision identifier

\* ------------------------------------------------------- revisions, paths
Hex == {"a", "b"}
Revs == [1..RevLen -> Hex]
Pins == UNION {[1..n -> Hex] : n \in 1..RevLen}
None == <<"None">>

\* the revisions the remote repository holds: a^n, a^(n-1)b and ba^(n-1)
RemoteCommits ==
    {r \in Revs : /\ \A i \in 2..(RevLen - 1) : r[i] = "a"
                  /\ ~(r[1] = "b" /\ r[RevLen] = "b")}

ProjectRoot == <<"proj">>
AssetPath == <<"proj", "a">>
OtherPath == <<"proj", "b">>
AssetPaths == {AssetPath, OtherPath}
Dirs == {ProjectRoot} \cup AssetPaths

RepoURL == "url"
Branch == "dev"

Absent == [kind |-> "absent", head |-> <<>>, detached |-> FALSE]
NotRepo == [kind |-> "dir", head |-> <<>>, detached |-> FALSE]
Repo(r, d) == [kind |-> "repo", head |-> r, detached |-> d]

NoSpec == [path |-> <<>>, branch |-> "", repo |-> "", commit |-> None]
AssetSpec(p, c) == [path |-> p, branch |-> Branch, repo |-> RepoURL, commit |-> c]

VARIABLES
    fs,       \* directory -> Absent, NotRepo or Repo(head, detached)
    tip,      \* head of Branch at the remote
    pc,       \* position of the running assets_setup call, "idle" when none
    args,     \* arguments of the running call
    pre,      \* fs when the running call started
    log,      \* git subcommands the running call has issued
    msgs,     \* source lines of the logger.info calls the running call made
    result,   \* "none" while running, "returned", "GitError", "TypeError"
    prev      \* arguments of the last call if it returned and nothing
              \* outside changed since, NoSpec otherwise

syncVars == <<fs, tip, pc, args, pre, log, msgs, result, prev>>

\* state of the file operations of giza/tools/files.py
VARIABLES
    disk,     \* absolute path -> node of the file tree
    fpc,      \* position of the running file operation, "idle" when none
    fargs,    \* its name and arguments
    fpre,     \* disk when it started
    fres,     \* its outcome: exception name and raising line, or "returned"
    writes,   \* shutil.copyfile calls it completed
    fprev     \* arguments of the previous file operation

filesVars == <<disk, fpc, fargs, fpre, fres, writes, fprev>>

\* state of concurrent safe_create_directory calls
VARIABLES
    rdisk,    \* absolute path -> node of the file tree the calls share
    rpath,    \* the path the calls are given
    rpre,     \* rdisk before the calls
    rpc,      \* process -> position in safe_create_directory
    rres      \* process -> return value or exception, "none" while running

raceVars == <<rdisk, rpath, rpre, rpc, rres>>

\* state of a GitRepo operation
VARIABLES
    gcur,     \* branch the repository has checked out
    gpc,      \* position in the running operation, "idle" when none
    gargs,    \* the operation and its arguments
    gstart,   \* starting_branch of GitRepo.branch
    gplan,    \* commands the operation has yet to run
    glog,     \* commands it has run
    gres      \* "none" while running, "returned" or the exception raised

gitVars == <<gcur, gpc, gargs, gstart, gplan, glog, gres>>

\* state of an assets_tasks call
VARIABLES
    tconf,    \* conf.assets: None or the list of asset specifications
    tpc,      \* position in assets_tasks, "idle" when no call runs
    tqueue,   \* what app.add has put in the application's queue
    tgen,     \* the tasks gen_app.add has put in gen_app's queue
    ti,       \* index of the asset the outer loop is at
    tj,       \* index of the content type the inner loop is at
    tres      \* "none" while running, "returned" or the exception raised

planVars == <<tconf, tpc, tqueue, tgen, ti, tj, tres>>

\* state of the test driver, test.py
VARIABLES
    duser,    \* the command line and the build directory the script finds
    dpc,      \* position in main
    dcmds,    \* commands run so far: source line and whether it exited 0
    dlog,     \* source lines of the logger calls made
    dexit     \* how the script ended: exit status, and whether by an
              \* exception nothing caught; status -1 while it runs

driverVars == <<duser, dpc, dcmds, dlog, dexit>>

\* state of an ApiArgData object
VARIABLES
    astate,   \* self.state, a dict: key -> value
    apc,      \* "new"; "set" and then "read" after the first use of
              \* description on a new object; "used" after anything else
    agiven,   \* the value last assigned to description
    aread     \* what the last read of description gave

apiVars == <<astate, apc, agiven, aread>>

\* everything but the state of assets_setup, of the file operations, ...
notSync == <<filesVars, raceVars, gitVars, planVars, driverVars, apiVars>>
notFiles == <<syncVars, raceVars, gitVars, planVars, driverVars, apiVars>>
notRace == <<syncVars, filesVars, gitVars, planVars, driverVars, apiVars>>
notGit == <<syncVars, filesVars, raceVars, planVars, driverVars, apiVars>>
notPlan == <<syncVars, filesVars, raceVars, gitVars, driverVars, apiVars>>
notDriver == <<syncVars, filesVars, raceVars, gitVars, planVars, apiVars>>
notApi == <<syncVars, filesVars, raceVars, gitVars, planVars, driverVars>>

vars == <<syncVars, filesVars, raceVars, gitVars, planVars, driverVars, apiVars>>

\* no assets_tasks call, no test driver, no ApiArgData object
NoConf == [none |-> TRUE, assets |-> <<>>]
PlanParked ==
    /\ tconf = NoConf
    /\ tpc = "parked"
    /\ tqueue = <<>>
    /\ tgen = <<>>
    /\ ti = 0
    /\ tj = 0
    /\ tres = "none"
NoUser == [toolchain |-> "", matched |-> TRUE, build_exists |-> TRUE]
Running == [status |-> -1, uncaught |-> FALSE]
DriverParked ==
    /\ duser = NoUser
    /\ dpc = "parked"
    /\ dcmds = <<>>
    /\ dlog = <<>>
    /\ dexit = Running
EmptyDict == [k \in {} |-> <<>>]
NoValue == [type |-> "", lines |-> <<>>]
NoRead == [exc |-> "none", text |-> <<>>]
ApiParked ==
    /\ astate = EmptyDict
    /\ apc = "parked"
    /\ agiven = NoValue
    /\ aread = NoRead
OthersParked == PlanParked /\ DriverParked /\ ApiParked

\* the file operations are not running
NoNode == [kind |-> "absent", data |-> <<>>]
NoCall == [op |-> "", cwd |-> <<>>, source |-> <<>>, target |-> <<>>]
NoResult == [exc |-> "none", line |-> 0]
FilesParked ==
    /\ disk = [n \in {} |-> NoNode]
    /\ fpc = "parked"
    /\ fargs = NoCall
    /\ fpre = disk
    /\ fres = NoResult
    /\ writes = 0
    /\ fprev = NoCall

\* no safe_create_directory calls are running
RaceParked ==
    /\ rdisk = [n \in {} |-> NoNode]
    /\ rpath = <<>>
    /\ rpre = rdisk
    /\ rpc = [p \in {} |-> "parked"]
    /\ rres = [p \in {} |-> "none"]

\* no GitRepo operation is running
NoGitCall == [op |-> "", name |-> <<>>, items |-> <<>>, repo |-> "", entry |-> <<>>]
GitParked ==
    /\ gcur = <<>>
    /\ gpc = "parked"
    /\ gargs = NoGitCall
    /\ gstart = <<>>
    /\ gplan = <<>>
    /\ glog = <<>>
    /\ gres = "none"

\* ------------------------------------------------------- python helpers
\* str.startswith
StartsWith_Reversed(s, p) == Len(s) <= Len(p) /\ SubSeq(p, 1, Len(s)) = s
StartsWith(s, p) == Len(p) <= Len(s) /\ SubSeq(s, 1, Len(p)) = p

\* os.path.split and os.path.join on component sequences
Split(path) == <<SubSeq(path, 1, Len(path) - 1), path[Len(path)]>>
Join(base, name) == Append(base, name)

\* os.path.exists
Exists(path) == fs[path].kind # "absent"

\* ----------------------------------------------------------- GitRepo
\* argument vectors built by the GitRepo methods
PullArgs(remote, branch) == <<"pull", remote, branch>>
ShaArgs(ref) == <<"rev-parse", "--verify", ref>>
CheckoutArgs(ref) == <<"checkout", ref>>
CloneArgs_NoBranch(remote, repo_path, branch) ==
    <<"clone", remote>> \o (IF repo_path # "" THEN <<repo_path>> ELSE <<>>)
CloneArgs(remote, repo_path, branch) ==
    <<"clone", remote>>
        \o (IF branch # "" THEN <<"--branch", branch>> ELSE <<>>)
        \o (IF repo_path # "" THEN <<repo_path>> ELSE <<>>)

\* GitRepo.cmd: one git subcommand run in directory dir
Cmd(dir, argv, ok) == log' = Append(log, [dir |-> dir, argv |-> argv, ok |-> ok])

\* the revisions a ref names in the repository of directory d
Objects(d) == IF d = ProjectRoot THEN {fs[d].head} ELSE RemoteCommits \cup {fs[d].head}
Abbreviates(ref, r) == Len(ref) <= Len(r) /\ \A i \in 1..Len(ref) : r[i] = ref[i]
Resolve(d, ref) == {r \in Objects(d) : Abbreviates(ref, r)}

\* whether the subcommand can succeed at all in directory d
CanSha(d) == fs[d].kind = "repo"
CanPull(d) == fs[d].kind = "repo"
CanCheckout(d, ref) == fs[d].kind = "repo" /\ Cardinality(Resolve(d, ref)) = 1
CanClone(d, name) == fs[d].kind # "absent" /\ fs[Join(d, name)].kind = "absent"

Raise(e) == result' = e /\ pc' = "done"
\* GitRepo.cmd, lines 56-57: CommandError is re-raised as GitError
GitFail_Untranslated == Raise("CommandError")
GitFail == Raise("GitError")
Finish == result' = "returned" /\ pc' = "done"
Info(line) == msgs' = Append(msgs, line)

\* ------------------------------------------------------ assets_setup
\* line 66, 69: which branch of assets_setup a call takes
Entry_PullAlways(path, commit) == IF Exists(path) THEN "L70" ELSE "L83"
Entry(path, commit) ==
    IF Exists(path)
    THEN IF commit = None THEN "L70" ELSE "L73a"
    ELSE "L83"

\* line 73: elif g.sha() == commit or g.sha().startswith(commit)
After73a(sha, commit) == IF sha = commit THEN "done" ELSE "L73b"
After73b_Inverted(sha, commit) == IF StartsWith(sha, commit) THEN "L76" ELSE "done"
After73b(sha, commit) == IF StartsWith(sha, commit) THEN "done" ELSE "L76"

\* line 86: if commit is not None and g.sha() == commit or g.sha().startswith(commit)
After83(commit) == IF commit # None THEN "L86a" ELSE "L86b"
After86a(sha, commit) == IF sha = commit THEN "L87" ELSE "L86b"
After86b(sha, commit) ==
    IF commit = None THEN "TypeError"
    ELSE IF StartsWith(sha, commit) THEN "L87" ELSE "done"

AssetsSetup(path, commit) ==
    /\ pc = "idle"
    /\ args' = AssetSpec(path, commit)
    /\ pre' = fs
    /\ log' = <<>>
    /\ msgs' = <<>>
    /\ result' = "none"
    /\ pc' = Entry(path, commit)
    /\ UNCHANGED <<fs, tip, prev>>
    /\ UNCHANGED notSync

\* line 70: g.pull(branch=branch) in path
L70_Pull ==
    /\ pc = "L70"
    /\ \E ok \in BOOLEAN :
        /\ ok => CanPull(args.path)
        /\ Cmd(args.path, PullArgs("origin", args.branch), ok)
        /\ IF ok
           THEN /\ fs' = [fs EXCEPT ![args.path].head = tip]
                /\ Info(71)
                /\ Finish
           ELSE /\ GitFail
                /\ UNCHANGED <<fs, msgs>>
    /\ UNCHANGED <<tip, args, pre, prev>>
    /\ UNCHANGED notSync

\* line 73, left operand: g.sha() == commit
L73a_Sha ==
    /\ pc = "L73a"
    /\ \E ok \in BOOLEAN :
        /\ ok => CanSha(args.path)
        /\ Cmd(args.path, ShaArgs("HEAD"), ok)
        /\ IF ok
           THEN IF After73a(fs[args.path].head, args.commit) = "done"
                THEN Info(74) /\ Finish
                ELSE pc' = "L73b" /\ UNCHANGED <<msgs, result>>
           ELSE GitFail /\ UNCHANGED msgs
    /\ UNCHANGED <<fs, tip, args, pre, prev>>
    /\ UNCHANGED notSync

\* line 73, right operand: g.sha().startswith(commit)
L73b_Sha ==
    /\ pc = "L73b"
    /\ \E ok \in BOOLEAN :
        /\ ok => CanSha(args.path)
        /\ Cmd(args.path, ShaArgs("HEAD"), ok)
        /\ IF ok
           THEN IF After73b(fs[args.path].head, args.commit) = "done"
                THEN Info(74) /\ Finish
                ELSE pc' = "L76" /\ UNCHANGED <<msgs, result>>
           ELSE GitFail /\ UNCHANGED msgs
    /\ UNCHANGED <<fs, tip, args, pre, prev>>
    /\ UNCHANGED notSync

\* line 76: g.checkout(commit) in path
L76_Checkout ==
    /\ pc = "L76"
    /\ \E ok \in BOOLEAN :
        /\ ok => CanCheckout(args.path, args.commit)
        /\ Cmd(args.path, CheckoutArgs(args.commit), ok)
        /\ IF ok
           THEN /\ fs' = [fs EXCEPT ![args.path] =
                             Repo(CHOOSE r \in Resolve(args.path, args.commit) : TRUE, TRUE)]
                /\ Info(77)
                /\ Finish
           ELSE /\ GitFail
                /\ UNCHANGED <<fs, msgs>>
    /\ UNCHANGED <<tip, args, pre, prev>>
    /\ UNCHANGED notSync

\* lines 79-84: g = GitRepo(base); g.clone(repo, repo_path=name, branch=branch)
L83_Clone ==
    /\ pc = "L83"
    /\ LET base == Split(args.path)[1]
           name == Split(args.path)[2]
       IN \E ok \in BOOLEAN :
            /\ ok => CanClone(base, name)
            /\ Cmd(base, CloneArgs(args.repo, name, args.branch), ok)
            /\ IF ok
               THEN /\ fs' = [fs EXCEPT ![Join(base, name)] = Repo(tip, FALSE)]
                    /\ Info(84)
                    /\ pc' = After83(args.commit)
                    /\ UNCHANGED result
               ELSE /\ GitFail
                    /\ UNCHANGED <<fs, msgs>>
    /\ UNCHANGED <<tip, args, pre, prev>>
    /\ UNCHANGED notSync

\* line 86, left operand: commit is not None and g.sha() == commit, g on base
L86a_Sha ==
    /\ pc = "L86a"
    /\ LET base == Split(args.path)[1]
       IN \E ok \in BOOLEAN :
            /\ ok => CanSha(base)
            /\ Cmd(base, ShaArgs("HEAD"), ok)
            /\ IF ok
               THEN /\ pc' = After86a(fs[base].head, args.commit)
                    /\ UNCHANGED result
               ELSE GitFail
    /\ UNCHANGED <<fs, tip, args, pre, msgs, prev>>
    /\ UNCHANGED notSync

\* line 86, right operand: g.sha().startswith(commit), g on base
L86b_Sha ==
    /\ pc = "L86b"
    /\ LET base == Split(args.path)[1]
       IN \E ok \in BOOLEAN :
            /\ ok => CanSha(base)
            /\ Cmd(base, ShaArgs("HEAD"), ok)
            /\ IF ok
               THEN LET to == After86b(fs[base].head, args.commit)
                    IN IF to = "TypeError" THEN Raise("TypeError")
                       ELSE IF to = "done" THEN Finish
                       ELSE pc' = to /\ UNCHANGED result
               ELSE GitFail
    /\ UNCHANGED <<fs, tip, args, pre, msgs, prev>>
    /\ UNCHANGED notSync

\* lines 87-88: g.checkout(commit), g on base
L87_Checkout ==
    /\ pc = "L87"
    /\ LET base == Split(args.path)[1]
       IN \E ok \in BOOLEAN :
            /\ ok => CanCheckout(base, args.commit)
            /\ Cmd(base, CheckoutArgs(args.commit), ok)
            /\ IF ok
               THEN /\ fs' = [fs EXCEPT ![base] =
                                 Repo(CHOOSE r \in Resolve(base, args.commit) : TRUE, TRUE)]
                    /\ Info(88)
                    /\ Finish
               ELSE /\ GitFail
                    /\ UNCHANGED <<fs, msgs>>
    /\ UNCHANGED <<tip, args, pre, prev>>
    /\ UNCHANGED notSync

\* the call is over: the task runner takes the result
Return ==
    /\ pc = "done"
    /\ pc' = "idle"
    /\ prev' = IF result = "returned" THEN args ELSE NoSpec
    /\ args' = NoSpec
    /\ pre' = fs
    /\ log' = <<>>
    /\ msgs' = <<>>
    /\ result' = "none"
    /\ UNCHANGED <<fs, tip>>
    /\ UNCHANGED notSync

\* ------------------------------------------------------- environment
\* somebody pushes to the remote branch
RemotePush ==
    /\ pc = "idle"
    /\ \E r \in RemoteCommits \ {tip} : tip' = r
    /\ prev' = NoSpec
    /\ UNCHANGED <<fs, pc, args, pre, log, msgs, result>>
    /\ UNCHANGED notSync

\* assets_clean: rm_rf(path)
AssetsClean(path) ==
    /\ pc = "idle"
    /\ Exists(path)
    /\ fs' = [fs EXCEPT ![path] = Absent]
    /\ pre' = fs'
    /\ prev' = NoSpec
    /\ UNCHANGED <<tip, pc, args, log, msgs, result>>
    /\ UNCHANGED notSync

Init ==
    /\ fs \in {f \in [Dirs -> {Absent, NotRepo} \cup {Repo(r, d) : r \in Revs, d \in BOOLEAN}] :
                /\ f[ProjectRoot].kind # "absent"
                /\ ~f[ProjectRoot].detached
                /\ \A p \in AssetPaths :
                     /\ f[p].kind # "dir"
                     /\ f[p].kind = "repo" => f[p].head \in RemoteCommits}
    /\ tip \in RemoteCommits
    /\ pc = "idle"
    /\ args = NoSpec
    /\ pre = fs
    /\ log = <<>>
    /\ msgs = <<>>
    /\ result = "none"
    /\ prev = NoSpec
    /\ FilesParked
    /\ RaceParked
    /\ GitParked
    /\ OthersParked

Next ==
    \/ \E p \in AssetPaths, c \in Pins \cup {None} : AssetsSetup(p, c)
    \/ L70_Pull
    \/ L73a_Sha
    \/ L73b_Sha
    \/ L76_Checkout
    \/ L83_Clone
    \/ L86a_Sha
    \/ L86b_Sha
    \/ L87_Checkout
    \/ Return
    \/ RemotePush
    \/ \E p \in AssetPaths : AssetsClean(p)

Spec == Init /\ [][Next]_vars

TypeOK ==
    /\ pc \in {"idle", "L70", "L73a", "L73b", "L76", "L83", "L86a", "L86b", "L87", "done"}
    /\ result \in {"none", "returned", "GitError", "TypeError"}
    /\ tip \in RemoteCommits
    /\ \A p \in AssetPaths : fs[p].kind = "repo" => fs[p].head \in RemoteCommits

\* ------------------------------------------------- vocabulary of the claims
InCall == pc # "idle"
Ended == pc = "done"
Returned == pc = "done" /\ result = "returned"
AllOk == \A i \in 1..Len(log) : log[i].ok
Count(c) == Cardinality({i \in 1..Len(log) : log[i].argv[1] = c})
PinSet == args.commit # None
IsPrefixOf(p, s) == Len(p) <= Len(s) /\ \A i \in 1..Len(p) : s[i] = p[i]
MeetsPin(st, commit) ==
    st.kind = "repo" /\ (st.head = commit \/ IsPrefixOf(commit, st.head))
ParentOf(path) == [i \in 1..(Len(path) - 1) |-> path[i]]
LeafOf(path) == path[Len(path)]
WasMissing == InCall /\ pre[args.path].kind = "absent"
WasPresent == InCall /\ pre[args.path].kind = "repo"

\* C1: when a synchronize call ends, localPath is either absent with nothing
\* changed, or present at a revision that satisfies the target: the branch
\* tip when no pin is set, a revision equal to or prefixed by the pin when one
\* is set.  Stated for the calls that return; a call that raised must at least
\* have left localPath absent-and-untouched or present.
C1_EndsAtTarget ==
    Ended =>
        IF result = "returned"
        THEN /\ fs[args.path].kind = "repo"
             /\ IF PinSet THEN MeetsPin(fs[args.path], args.commit)
                          ELSE fs[args.path].head = tip
        ELSE \/ fs[args.path].kind = "absent" /\ fs = pre
             \/ fs[args.path].kind = "repo"

\* C2: on a missing localPath, once the clone has succeeded and the call
\* returns, a checkout of the pin was issued if and only if a pin is set and
\* the head of the fresh clone neither equals the pin nor starts with it.
C2_CheckoutIffPinUnmet ==
    (Returned /\ WasMissing) =>
        (Count("checkout") >= 1
            <=> (PinSet /\ ~MeetsPin(fs[args.path], args.commit)))

\* C3: a synchronize call ends by returning or by raising GitError, and it
\* returns whenever every git subcommand it issued succeeded.
C3_ReturnsOrGitError ==
    Ended => /\ result \in {"returned", "GitError"}
             /\ AllOk => result = "returned"

\* C4: every pull, checkout and revision read of a call runs in the asset's
\* localPath, and the call changes no directory other than localPath.
C4_OnlyLocalPath ==
    InCall =>
        /\ \A i \in 1..Len(log) :
              log[i].argv[1] # "clone" => log[i].dir = args.path
        /\ \A d \in Dirs \ {args.path} : fs[d] = pre[d]

\* C5: a call that immediately follows a returned call with the same
\* AssetSpec, with no outside change in between, issues no clone, pull or
\* checkout when a pin is set and at most one pull and nothing else mutating
\* when no pin is set.
C5_SecondCallConverged ==
    (InCall /\ prev = args) =>
        /\ Count("clone") = 0
        /\ Count("checkout") = 0
        /\ IF PinSet THEN Count("pull") = 0 ELSE Count("pull") <= 1

\* C6: when localPath exists, a pin is set and the current revision equals the
\* pin or starts with it, the call issues no clone, pull or checkout, leaves
\* the file system as it was, and returns with the "currently at" report when
\* its revision reads succeed.
C6_PinMetIsNoOp ==
    (WasPresent /\ PinSet /\ MeetsPin(pre[args.path], args.commit)) =>
        /\ Count("clone") = 0
        /\ Count("pull") = 0
        /\ Count("checkout") = 0
        /\ fs = pre
        /\ (Ended /\ AllOk) => (result = "returned" /\ msgs = <<74>>)

C6_Witness ==
    /\ Returned
    /\ WasPresent /\ PinSet /\ MeetsPin(pre[args.path], args.commit)
    /\ Len(args.commit) < Len(pre[args.path].head)
    /\ Len(log) = 2

\* C7: when localPath exists, a pin is set and the current revision neither
\* equals the pin nor starts with it, the call issues no clone and no pull and
\* never more than one checkout, every checkout being of the pin in localPath;
\* when its subcommands succeed it has issued exactly one checkout and
\* localPath is then at a revision equal to or prefixed by the pin.
C7_PinUnmetChecksOut ==
    (WasPresent /\ PinSet /\ ~MeetsPin(pre[args.path], args.commit)) =>
        /\ Count("clone") = 0
        /\ Count("pull") = 0
        /\ Count("checkout") <= 1
        /\ \A i \in 1..Len(log) :
              log[i].argv[1] = "checkout" =>
                  log[i].dir = args.path /\ log[i].argv[2] = args.commit
        /\ (Ended /\ AllOk) =>
              /\ result = "returned"
              /\ Count("checkout") = 1
              /\ MeetsPin(fs[args.path], args.commit)
              /\ fs[args.path].head # pre[args.path].head

C7_Witness ==
    /\ Returned
    /\ WasPresent /\ PinSet /\ ~MeetsPin(pre[args.path], args.commit)
    /\ Count("checkout") = 1
    /\ Len(args.commit) < Len(fs[args.path].head)

\* C8: a pull is issued only when localPath existed and no pin is declared;
\* such a call issues exactly one subcommand, the pull of the declared branch
\* from origin in localPath; a call with a pin never issues a pull.
C8_PullIffPresentUnpinned ==
    InCall =>
        /\ Count("pull") >= 1 => (pre[args.path].kind # "absent" /\ ~PinSet)
        /\ (Ended /\ pre[args.path].kind # "absent" /\ ~PinSet) =>
              /\ Len(log) = 1
              /\ log[1].dir = args.path
              /\ log[1].argv = <<"pull", "origin", args.branch>>
        /\ PinSet => Count("pull") = 0

C8_Witness ==
    /\ Returned
    /\ WasPresent /\ ~PinSet
    /\ Count("pull") = 1
    /\ pre[args.path].head # tip
    /\ fs[args.path].head = tip

\* C9: a call on a missing localPath issues exactly one clone: run in the
\* parent directory of localPath, of the declared repository, requesting the
\* declared branch, named after localPath's leaf, and on success localPath is
\* the fresh clone; a call on an existing localPath issues no clone.
C9_CloneOnMissing ==
    /\ (Ended /\ WasMissing) =>
          /\ Count("clone") = 1
          /\ log[1].dir = ParentOf(args.path)
          /\ log[1].argv =
                <<"clone", args.repo, "--branch", args.branch, LeafOf(args.path)>>
          /\ log[1].ok => fs[args.path] = Repo(tip, FALSE)
    /\ (InCall /\ pre[args.path].kind # "absent") => Count("clone") = 0

C9_Witness ==
    /\ Ended /\ WasMissing
    /\ log[1].ok
    /\ args.path = OtherPath
    /\ fs[AssetPath].kind = "absent"

\* C10: a failed git subcommand is the last one its call issues, the call
\* ends with GitError, the failed step changes nothing on disk, and a clone
\* that had completed before the failure is still in place.
C10_FailureEndsCall ==
    InCall =>
        \A i \in 1..Len(log) :
            /\ ~log[i].ok =>
                  /\ i = Len(log)
                  /\ Ended /\ result = "GitError"
                  /\ Len(log) = 1 => fs = pre
            /\ (log[i].argv[1] = "clone" /\ log[i].ok) =>
                  fs[args.path] = Repo(tip, FALSE)

C10_Witness ==
    /\ Ended /\ result = "GitError"
    /\ Len(log) >= 2
    /\ log[1].argv[1] = "clone" /\ log[1].ok
    /\ log[Len(log)].argv[1] = "checkout" /\ ~log[Len(log)].ok
    /\ fs[args.path].kind = "repo"

\* =================================================== giza/tools/files.py
\* A path string is the sequence of its "/"-separated components, so that
\* "out/t/" is <<"out", "t", "">> and "" is <<"">>; <<>> stands for the ''
\* that os.path.dirname gives for a bare name.  The nodes of the tree are
\* named by absolute component sequences, <<>> being the root.

\* ------------------------------------------------------------------ bounds
MaxChunks == 2                  \* longest file, in chunks read by md5_file

Bytes == {"0", "1"}
Contents == UNION {[1..n -> Bytes] : n \in 0..MaxChunks}

FNodes == {<<"src">>, <<"out">>, <<"out", "t">>, <<"t">>, <<"old">>}
RootDir == <<>>
SourcePath == <<"src">>
\* where a link left by an earlier run points
StalePath == <<"old">>

DirNode == [kind |-> "dir", data |-> <<>>]
FileNode(c) == [kind |-> "file", data |-> c]
LinkNode(dest) == [kind |-> "link", data |-> dest]

\* os.path.dirname, os.path.basename
Front(p) == SubSeq(p, 1, Len(p) - 1)
Dirname(p) == IF p = <<>> THEN <<>> ELSE Front(p)
Basename(p) == IF p = <<>> THEN "" ELSE p[Len(p)]

\* the node a path string names, seen from the working directory cwd
TrailingSlash(p) == Len(p) > 1 /\ p[Len(p)] = ""
NodeId(cwd, p) == cwd \o (IF TrailingSlash(p) THEN Front(p) ELSE p)
NodeAt(d, id) ==
    IF id = RootDir THEN DirNode
    ELSE IF id \in DOMAIN d THEN d[id] ELSE NoNode
Follow(d, n) == IF n.kind = "link" THEN NodeAt(d, n.data) ELSE n

\* lstat and stat: '' names nothing, "x/" names x only if x is a directory
LStat(d, cwd, p) ==
    IF p = <<>> \/ p = <<"">> THEN NoNode
    ELSE LET n == NodeAt(d, NodeId(cwd, p))
         IN IF TrailingSlash(p)
            THEN (IF Follow(d, n).kind = "dir" THEN Follow(d, n) ELSE NoNode)
            ELSE n
Stat(d, cwd, p) == Follow(d, LStat(d, cwd, p))

\* os.path.islink, isdir, isfile, exists
IsLink(d, cwd, p) == LStat(d, cwd, p).kind = "link"
IsDir(d, cwd, p) == Stat(d, cwd, p).kind = "dir"
IsFile(d, cwd, p) == Stat(d, cwd, p).kind = "file"
PathExists(d, cwd, p) == Stat(d, cwd, p).kind # "absent"

\* os.mkdir of the node id: its parent must be a directory, itself absent
CanMkdir(d, id) ==
    /\ id \in DOMAIN d
    /\ NodeAt(d, id).kind = "absent"
    /\ Follow(d, NodeAt(d, Front(id))).kind = "dir"

\* os.makedirs: creates the missing ancestors, then the leaf; ok is FALSE
\* when it raises OSError
RECURSIVE MakedirsId(_, _)
MakedirsId(d, id) ==
    IF id = RootDir THEN [ok |-> FALSE, disk |-> d]
    ELSE LET head == Front(id)
             up == IF head # RootDir /\ NodeAt(d, head).kind = "absent"
                   THEN MakedirsId(d, head)
                   ELSE [ok |-> TRUE, disk |-> d]
         IN IF up.ok /\ CanMkdir(up.disk, id)
            THEN [ok |-> TRUE, disk |-> [up.disk EXCEPT ![id] = DirNode]]
            ELSE [ok |-> FALSE, disk |-> up.disk]
Makedirs(d, cwd, p) ==
    IF p = <<>> \/ p = <<"">> THEN [ok |-> FALSE, disk |-> d]
    ELSE MakedirsId(d, NodeId(cwd, p))

\* safe_create_directory, lines 52-64, run without interference: line 59
\* reads os.path.isfie, an attribute posixpath does not have
SafeCreateDirectory(d, cwd, p) ==
    LET m == Makedirs(d, cwd, p)
    IN IF m.ok THEN [exc |-> "returned", value |-> "True", disk |-> m.disk]
       ELSE IF IsDir(m.disk, cwd, p)
            THEN [exc |-> "returned", value |-> "None", disk |-> m.disk]
            ELSE [exc |-> "AttributeError", value |-> "", disk |-> m.disk]

\* md5_file, lines 131-138: absorbs the chunks read until the empty one
RECURSIVE Md5Update(_, _)
Md5Update(state, chunks) ==
    IF chunks = <<>> THEN state
    ELSE Md5Update(state \o <<Head(chunks)>>, Tail(chunks))
Md5File_FirstChunk(content) ==
    [hexdigest |-> IF content = <<>> THEN <<>> ELSE <<Head(content)>>]
Md5File(content) == [hexdigest |-> Md5Update(<<>>, content)]

\* line 163: md5_file(source_file) == md5_file(target_file)
SameDigest_Never(d, cwd, source, target) == FALSE
SameDigest(d, cwd, source, target) ==
    Md5File(Stat(d, cwd, source).data) = Md5File(Stat(d, cwd, target).data)

\* the node a write to the path lands in: the destination of a link
WrittenNode(d, cwd, p) ==
    IF LStat(d, cwd, p).kind = "link" THEN LStat(d, cwd, p).data ELSE NodeId(cwd, p)

\* shutil.copyfile
CopyFile(d, cwd, source, target, line) ==
    IF Stat(d, cwd, source).kind # "file" \/ Stat(d, cwd, target).kind = "dir"
       \/ WrittenNode(d, cwd, target) \notin FNodes
       \/ Follow(d, NodeAt(d, Front(NodeId(cwd, target)))).kind # "dir"
    THEN [exc |-> "IOError", line |-> line, disk |-> d, writes |-> 0]
    ELSE IF WrittenNode(d, cwd, target) = NodeId(cwd, source)
    THEN [exc |-> "SameFileError", line |-> line, disk |-> d, writes |-> 0]
    ELSE [exc |-> "returned", line |-> 0,
          disk |-> [d EXCEPT ![WrittenNode(d, cwd, target)] =
                                 FileNode(Stat(d, cwd, source).data)],
          writes |-> 1]

\* line 141: os.path.isfile(source_file) is False
MissingSource_ExistsOnly(d, cwd, source) == ~PathExists(d, cwd, source)
MissingSource(d, cwd, source) == ~IsFile(d, cwd, source)
\* line 152: os.path.isfile(source_file) is False or os.path.isdir(source_file)
MissingSourceIfNeeded(d, cwd, source) ==
    ~IsFile(d, cwd, source) \/ IsDir(d, cwd, source)

\* copy_always, lines 140-149
CopyAlwaysRun(d, cwd, source, target) ==
    IF MissingSource(d, cwd, source)
    THEN [exc |-> "FileOperationError", line |-> 144, disk |-> d, writes |-> 0]
    ELSE LET dir == SafeCreateDirectory(d, cwd, Dirname(target))
         IN IF dir.exc # "returned"
            THEN [exc |-> dir.exc, line |-> 59, disk |-> dir.disk, writes |-> 0]
            ELSE CopyFile(dir.disk, cwd, source, target, 147)

\* copy_if_needed, lines 151-170
CopyIfNeededRun(d, cwd, source, target) ==
    IF MissingSourceIfNeeded(d, cwd, source)
    THEN [exc |-> "FileOperationError", line |-> 155, disk |-> d, writes |-> 0]
    ELSE IF ~IsFile(d, cwd, target)
    THEN LET dir == SafeCreateDirectory(d, cwd, Dirname(target))
         IN IF dir.exc # "returned"
            THEN [exc |-> dir.exc, line |-> 59, disk |-> dir.disk, writes |-> 0]
            ELSE CopyFile(dir.disk, cwd, source, target, 158)
    ELSE IF SameDigest(d, cwd, source, target)
    THEN [exc |-> "returned", line |-> 0, disk |-> d, writes |-> 0]
    ELSE CopyFile(d, cwd, source, target, 167)

CopyTargets == {<<"t">>, <<"out", "t">>}

FileCall(op, cwd, source, target) ==
    [op |-> op, cwd |-> cwd, source |-> source, target |-> target]

FileOpDone(call, run) ==
    /\ fpc = "idle"
    /\ fargs' = call
    /\ fpre' = disk
    /\ disk' = run.disk
    /\ fres' = [exc |-> run.exc, line |-> run.line]
    /\ writes' = run.writes
    /\ fpc' = "done"
    /\ UNCHANGED fprev

CopyIfNeeded(source, target) ==
    /\ FileOpDone(FileCall("copy_if_needed", RootDir, source, target),
                  CopyIfNeededRun(disk, RootDir, source, target))
    /\ UNCHANGED notFiles

CopyAlways(source, target) ==
    /\ FileOpDone(FileCall("copy_always", RootDir, source, target),
                  CopyAlwaysRun(disk, RootDir, source, target))
    /\ UNCHANGED notFiles

\* ------------------------------------------------ create_link, symlink
\* str.format: one positional argument for every index of the template
FormatOk(maxIndex, nargs) == maxIndex < nargs

LinkCalls ==
    {[cwd |-> RootDir, target |-> <<"out", "t">>],
     [cwd |-> RootDir, target |-> <<"t">>],
     [cwd |-> RootDir, target |-> <<"out">>],
     [cwd |-> <<"out">>, target |-> <<"t">>],
     [cwd |-> RootDir, target |-> <<"out", "t", "">>],
     [cwd |-> RootDir, target |-> <<"">>]}

FRaise(exc, line) == fres' = [exc |-> exc, line |-> line] /\ fpc' = "done"
FGoto(to) == fpc' = to /\ UNCHANGED fres

\* line 172: create_link(input_fn, output_fn) is called in directory cwd
CreateLink(cwd, input_fn, output_fn) ==
    /\ fpc = "idle"
    /\ NodeAt(disk, cwd).kind = "dir"
    /\ fargs' = FileCall("create_link", cwd, input_fn, output_fn)
    /\ fpre' = disk
    /\ fres' = NoResult
    /\ writes' = 0
    /\ fpc' = "L176"
    /\ UNCHANGED <<disk, fprev>>
    /\ UNCHANGED notFiles

\* lines 173-176: safe_create_directory(out_dirname) unless it is ''
L176_MakeParent ==
    /\ fpc = "L176"
    /\ LET out_dirname == Dirname(fargs.target)
           dir == SafeCreateDirectory(disk, fargs.cwd, out_dirname)
       IN IF out_dirname = <<>>
          THEN FGoto("L178") /\ UNCHANGED disk
          ELSE /\ disk' = dir.disk
               /\ IF dir.exc = "returned" THEN FGoto("L178") ELSE FRaise(dir.exc, 59)
    /\ UNCHANGED <<fargs, fpre, writes, fprev>>
    /\ UNCHANGED notFiles

\* which branch of lines 178-187 a target takes
TargetBranch(d, cwd, output_fn) ==
    IF IsLink(d, cwd, output_fn) THEN "remove"
    ELSE IF IsDir(d, cwd, output_fn) THEN "directory"
    ELSE IF PathExists(d, cwd, output_fn) THEN "exists"
    ELSE "free"

\* lines 178-187: remove an old link, refuse a directory or any other file
L178_CheckTarget ==
    /\ fpc = "L178"
    /\ LET b == TargetBranch(disk, fargs.cwd, fargs.target)
       IN CASE b = "remove" ->
                 /\ disk' = [disk EXCEPT ![NodeId(fargs.cwd, fargs.target)] = NoNode]
                 /\ FGoto("L188")
            [] b = "directory" ->
                 /\ IF FormatOk(1, 1) THEN FRaise("FileOperationError", 183)
                                      ELSE FRaise("IndexError", 181)
                 /\ UNCHANGED disk
            [] b = "exists" ->
                 /\ IF FormatOk(1, 2) THEN FRaise("FileOperationError", 187)
                                      ELSE FRaise("IndexError", 185)
                 /\ UNCHANGED disk
            [] OTHER -> FGoto("L188") /\ UNCHANGED disk
    /\ UNCHANGED <<fargs, fpre, writes, fprev>>
    /\ UNCHANGED notFiles

\* lines 188-192: a target without a leaf name is refused
L188_Basename ==
    /\ fpc = "L188"
    /\ IF Basename(fargs.target) = ""
       THEN IF FormatOk(1, 2) THEN FRaise("FileOperationError", 192)
                             ELSE FRaise("IndexError", 190)
       ELSE FGoto("L194")
    /\ UNCHANGED <<disk, fargs, fpre, writes, fprev>>
    /\ UNCHANGED notFiles

\* the name under which line 194 creates the link: out_base, in cwd
LinkName(cwd, output_fn) == cwd \o <<Basename(output_fn)>>

\* line 194, symlink lines 97-100: os.symlink unless the name is a link
L194_Symlink ==
    /\ fpc = "L194"
    /\ LET name == LinkName(fargs.cwd, fargs.target)
       IN IF NodeAt(disk, name).kind = "link"
          THEN FGoto("L195") /\ UNCHANGED disk
          ELSE IF name \in FNodes /\ NodeAt(disk, name).kind = "absent"
          THEN /\ disk' = [disk EXCEPT ![name] = LinkNode(fargs.source)]
               /\ FGoto("L195")
          ELSE FRaise("OSError", 100) /\ UNCHANGED disk
    /\ UNCHANGED <<fargs, fpre, writes, fprev>>
    /\ UNCHANGED notFiles

\* line 195: os.rename(out_base, output_fn)
L195_Rename ==
    /\ fpc = "L195"
    /\ LET name == LinkName(fargs.cwd, fargs.target)
           to == NodeId(fargs.cwd, fargs.target)
       IN IF name = to
          THEN FRaise("returned", 0) /\ UNCHANGED disk
          ELSE IF to \in FNodes /\ NodeAt(disk, to).kind # "dir"
                  /\ Follow(disk, NodeAt(disk, Front(to))).kind = "dir"
          THEN /\ disk' = [disk EXCEPT ![to] = disk[name], ![name] = NoNode]
               /\ FRaise("returned", 0)
          ELSE FRaise("OSError", 195) /\ UNCHANGED disk
    /\ UNCHANGED <<fargs, fpre, writes, fprev>>
    /\ UNCHANGED notFiles

\* the caller takes the outcome of the file operation
FileReturn ==
    /\ fpc = "done"
    /\ fpc' = "idle"
    /\ fprev' = fargs
    /\ fargs' = NoCall
    /\ fpre' = disk
    /\ fres' = NoResult
    /\ writes' = 0
    /\ UNCHANGED disk
    /\ UNCHANGED notFiles

\* the asset synchronisation is not running
SyncParked ==
    /\ fs = [d \in Dirs |-> Absent]
    /\ tip = CHOOSE r \in RemoteCommits : TRUE
    /\ pc = "parked"
    /\ args = NoSpec
    /\ pre = fs
    /\ log = <<>>
    /\ msgs = <<>>
    /\ result = "none"
    /\ prev = NoSpec

\* a tree in which a node exists only inside a directory
WellFormed(d) ==
    /\ d[<<"src">>].kind \in {"absent", "dir", "file"}
    /\ d[<<"out">>].kind \in {"absent", "dir", "file"}
    /\ d[<<"out">>].kind = "file" => d[<<"out">>].data = <<>>
    /\ d[<<"out">>].kind # "dir" => d[<<"out", "t">>].kind = "absent"
    /\ d[StalePath].kind = "absent"

FilesInit ==
    /\ disk \in {d \in [FNodes -> {NoNode, DirNode, LinkNode(SourcePath),
                                  LinkNode(StalePath)}
                                    \cup {FileNode(c) : c \in Contents}] :
                    WellFormed(d)}
    /\ fpc = "idle"
    /\ fargs = NoCall
    /\ fpre = disk
    /\ fres = NoResult
    /\ writes = 0
    /\ fprev = NoCall
    /\ SyncParked
    /\ RaceParked
    /\ GitParked
    /\ OthersParked

FilesNext ==
    \/ \E t \in CopyTargets : CopyIfNeeded(SourcePath, t)
    \/ \E t \in CopyTargets : CopyAlways(SourcePath, t)
    \/ \E c \in LinkCalls : CreateLink(c.cwd, SourcePath, c.target)
    \/ L176_MakeParent
    \/ L178_CheckTarget
    \/ L188_Basename
    \/ L194_Symlink
    \/ L195_Rename
    \/ FileReturn

SpecFiles == FilesInit /\ [][FilesNext]_vars

\* ------------------------------------- vocabulary of the claims on files.py
FDone == fpc = "done"
FReturned == fpc = "done" /\ fres.exc = "returned"
\* what reading the absolute path id of tree d gives
Seen(d, id) == IF d[id].kind = "link" THEN d[d[id].data] ELSE d[id]
SourceBefore == Seen(fpre, fargs.cwd \o fargs.source)
TargetBefore == Seen(fpre, fargs.cwd \o fargs.target)
TargetNow == Seen(disk, fargs.cwd \o fargs.target)

\* C11: copy_if_needed writes the target at most once, and only when the
\* target was not there or held other content than the source; on a target
\* with the source's content it writes nothing and leaves the tree as it was.
C11_WritesOnlyOnChange ==
    (FDone /\ fargs.op = "copy_if_needed") =>
        /\ writes <= 1
        /\ writes = 1 =>
              \/ TargetBefore.kind = "absent"
              \/ TargetBefore.kind = "file" /\ TargetBefore.data # SourceBefore.data
        /\ (TargetBefore.kind = "file" /\ SourceBefore.kind = "file"
              /\ TargetBefore.data = SourceBefore.data) =>
              (writes = 0 /\ disk = fpre /\ fres.exc = "returned")

C11_Witness ==
    /\ FReturned /\ fargs.op = "copy_if_needed"
    /\ fprev = fargs
    /\ TargetBefore.kind = "file" /\ SourceBefore.kind = "file"
    /\ TargetBefore.data = SourceBefore.data
    /\ Len(SourceBefore.data) = MaxChunks
    /\ writes = 0

\* C12: when copy_if_needed returns, the target is a file whose content is
\* the source's content, and the source is as it was.
C12_TargetEqualsSource ==
    (FReturned /\ fargs.op = "copy_if_needed") =>
        /\ TargetNow.kind = "file"
        /\ SourceBefore.kind = "file"
        /\ TargetNow.data = SourceBefore.data
        /\ disk[fargs.source] = fpre[fargs.source]

C12_Witness ==
    /\ FReturned /\ fargs.op = "copy_if_needed"
    /\ TargetBefore.kind = "file"
    /\ TargetBefore.data # SourceBefore.data
    /\ Len(TargetBefore.data) = Len(SourceBefore.data)
    /\ Len(SourceBefore.data) > 1
    /\ TargetBefore.data[1] = SourceBefore.data[1]
    /\ writes = 1

\* C13: copy_if_needed and copy_always raise FileOperationError from their
\* source check when the source is absent or a directory, and then the tree,
\* the target and its parent directory included, is as it was.
C13_MissingSourceTouchesNothing ==
    (FDone /\ fargs.op \in {"copy_if_needed", "copy_always"}
        /\ SourceBefore.kind \in {"absent", "dir"}) =>
        /\ fres.exc = "FileOperationError"
        /\ fres.line = (IF fargs.op = "copy_always" THEN 144 ELSE 155)
        /\ writes = 0
        /\ disk = fpre

C13_Witness ==
    /\ FDone /\ fargs.op = "copy_always"
    /\ SourceBefore.kind = "dir"
    /\ fargs.target = <<"out", "t">>
    /\ fpre[<<"out">>].kind = "absent"
    /\ fres.exc = "FileOperationError"

\* the absolute path of the target of the running call, a trailing "/" dropped
TargetId ==
    fargs.cwd \o (IF Len(fargs.target) > 1 /\ fargs.target[Len(fargs.target)] = ""
                  THEN [i \in 1..(Len(fargs.target) - 1) |-> fargs.target[i]]
                  ELSE fargs.target)
Linking == fargs.op = "create_link"
NoNewLink == \A n \in FNodes : disk[n].kind = "link" => fpre[n].kind = "link"

\* C14: create_link on a target that is a plain file (named without a
\* trailing separator) removes the file and returns, the target then being a
\* link to the source.
C14_PlainFileReplaced ==
    (FDone /\ Linking /\ fargs.cwd \o fargs.target \in FNodes
        /\ fpre[fargs.cwd \o fargs.target].kind = "file") =>
        /\ fres.exc = "returned"
        /\ disk[TargetId] = [kind |-> "link", data |-> fargs.source]

\* C15: create_link on a target that is a directory raises FileOperationError
\* from its directory branch, leaves the tree as it was and creates no link.
C15_DirectoryIsConflict ==
    (FDone /\ Linking /\ TargetId \in FNodes /\ fpre[TargetId].kind = "dir") =>
        /\ fres.exc = "FileOperationError"
        /\ fres.line = 183
        /\ disk = fpre

\* C16: between the creation of the new link and the rename the target path
\* holds no link: the link reaches the target only by the rename of line 195.
C16_LinkOnlyByRename ==
    (Linking /\ fpc = "L195" /\ TargetId \in FNodes) =>
        disk[TargetId].kind # "link"

\* C17: create_link on a target without a leaf name (empty, or ending in a
\* separator) raises the FileOperationError of the leaf-name check of line
\* 192, not that of a conflict branch, and creates no link.  Stated for the
\* calls whose safe_create_directory of the directory part returned.
C17_NoLeafIsNameError ==
    (FDone /\ Linking /\ fargs.target[Len(fargs.target)] = "" /\ fres.line # 59) =>
        /\ fres = [exc |-> "FileOperationError", line |-> 192]
        /\ NoNewLink

\* ================================== concurrent safe_create_directory calls
\* ------------------------------------------------------------------ bounds
NumProcs == 2                   \* processes calling safe_create_directory

Procs == 1..NumProcs
RNodes == {<<"d">>, <<"d", "e">>}

\* lines 56-64: what the handler of OSError does, given os.path.isdir(path)
OnOSError_Reraise(isdir) == "OSError"
OnOSError(isdir) == IF isdir THEN "None" ELSE "AttributeError"

RGoto(p, to) == rpc' = [rpc EXCEPT ![p] = to] /\ UNCHANGED rres
RDone(p, value) ==
    /\ rpc' = [rpc EXCEPT ![p] = "done"]
    /\ rres' = [rres EXCEPT ![p] = value]

\* line 52: process p calls safe_create_directory(rpath)
SafeCreateDirectoryCall(p) ==
    /\ rpc[p] = "idle"
    /\ RGoto(p, "exists")
    /\ UNCHANGED <<rdisk, rpath, rpre>>
    /\ UNCHANGED notRace

\* line 54, os.makedirs: does the parent of the path exist
MakedirsExists(p) ==
    /\ rpc[p] = "exists"
    /\ LET head == Front(rpath)
       IN IF head # RootDir /\ NodeAt(rdisk, head).kind = "absent"
          THEN RGoto(p, "mkhead")
          ELSE RGoto(p, "mkdir")
    /\ UNCHANGED <<rdisk, rpath, rpre>>
    /\ UNCHANGED notRace

\* line 54, os.makedirs: mkdir of the parent, "file exists" being tolerated
MakedirsHead(p) ==
    /\ rpc[p] = "mkhead"
    /\ LET head == Front(rpath)
       IN IF CanMkdir(rdisk, head)
          THEN rdisk' = [rdisk EXCEPT ![head] = DirNode] /\ RGoto(p, "mkdir")
          ELSE IF NodeAt(rdisk, head).kind # "absent"
          THEN UNCHANGED rdisk /\ RGoto(p, "mkdir")
          ELSE UNCHANGED rdisk /\ RGoto(p, "L57")
    /\ UNCHANGED <<rpath, rpre>>
    /\ UNCHANGED notRace

\* lines 54-55, os.makedirs: mkdir of the path itself, return True
MakedirsLeaf(p) ==
    /\ rpc[p] = "mkdir"
    /\ IF CanMkdir(rdisk, rpath)
       THEN rdisk' = [rdisk EXCEPT ![rpath] = DirNode] /\ RDone(p, "True")
       ELSE UNCHANGED rdisk /\ RGoto(p, "L57")
    /\ UNCHANGED <<rpath, rpre>>
    /\ UNCHANGED notRace

\* lines 56-64: except OSError
L57_Except(p) ==
    /\ rpc[p] = "L57"
    /\ RDone(p, OnOSError(Follow(rdisk, NodeAt(rdisk, rpath)).kind = "dir"))
    /\ UNCHANGED <<rdisk, rpath, rpre>>
    /\ UNCHANGED notRace

RaceInit ==
    /\ rpath \in RNodes
    /\ rdisk \in {d \in [RNodes -> {NoNode, DirNode, FileNode(<<>>)}] :
                     d[<<"d">>].kind # "dir" => d[<<"d", "e">>].kind = "absent"}
    /\ rpre = rdisk
    /\ rpc = [p \in Procs |-> "idle"]
    /\ rres = [p \in Procs |-> "none"]
    /\ SyncParked
    /\ FilesParked
    /\ GitParked
    /\ OthersParked

RaceNext ==
    \/ \E p \in Procs : SafeCreateDirectoryCall(p)
    \/ \E p \in Procs : MakedirsExists(p)
    \/ \E p \in Procs : MakedirsHead(p)
    \/ \E p \in Procs : MakedirsLeaf(p)
    \/ \E p \in Procs : L57_Except(p)

SpecRace == RaceInit /\ [][RaceNext]_vars

\* C18: when all the concurrent safe_create_directory calls on one path that
\* was free or a directory (below a parent that was free or a directory) are
\* over, each has returned True or None, the path is a directory, exactly one
\* call created it if it was free, and none changed anything if it was there.
RaceOver == \A p \in Procs : rpc[p] = "done"
RaceOnDirectory ==
    /\ rpre[rpath].kind \in {"absent", "dir"}
    /\ \A n \in RNodes : rpre[n].kind \in {"absent", "dir"}
C18_ConcurrentCreateSucceeds ==
    (RaceOver /\ RaceOnDirectory) =>
        /\ \A p \in Procs : rres[p] \in {"True", "None"}
        /\ rdisk[rpath] = [kind |-> "dir", data |-> <<>>]
        /\ rpre[rpath].kind = "absent" =>
              Cardinality({p \in Procs : rres[p] = "True"}) = 1
        /\ rpre[rpath].kind = "dir" =>
              (rdisk = rpre /\ \A p \in Procs : rres[p] = "None")

C18_Witness ==
    /\ RaceOver
    /\ rpath = <<"d", "e">>
    /\ rpre[<<"d">>].kind = "absent"
    /\ \E p, q \in Procs : rres[p] = "True" /\ rres[q] = "None"
    /\ rdisk[rpath].kind = "dir"

\* ============================================ GitRepo operations, git.py
\* A branch name is the sequence of its "/"-separated components.

\* ------------------------------------------------------------------ bounds
MaxItems == 2                   \* most commits or patches given to one call

Branches == {<<"master">>, <<"dev">>, <<"topic", "x">>}
PatchKinds == {"http", "sha", "number"}
NoRepo == ""
PatchRepos == {NoRepo, "https://host/repo"}
ItemLists(S) == UNION {[1..n -> S] : n \in 0..MaxItems}

\* a command to run: through GitRepo.cmd or through command() directly;
\* to is the branch it checks out, <<>> if none
ViaCmd(sub, to) == [via |-> "cmd", sub |-> sub, to |-> to]
ViaCommand(sub) == [via |-> "command", sub |-> sub, to |-> <<>>]
RaiseHere(exc) == [via |-> "raise", sub |-> exc, to |-> <<>>]

\* GitRepo.cmd lines 54-57 translate CommandError; command() alone does not
Surfaces(via) == IF via = "cmd" THEN "GitError" ELSE "CommandError"

\* current_branch, line 143: the third "/"-component of `symbolic-ref HEAD`
SymbolicRef(branch) == <<"refs", "heads">> \o branch
CurrentBranch(branch) == <<SymbolicRef(branch)[3]>>

\* cherry_pick, lines 166-172: one cmd('cherry-pick', commit) per commit
RECURSIVE PlanCherryPick(_)
PlanCherryPick(commits) ==
    IF commits = <<>> THEN <<>>
    ELSE <<ViaCmd("cherry-pick", <<>>)>> \o PlanCherryPick(Tail(commits))

\* am, lines 174-198: the commands for one patch
PlanPatch(obj, repo) ==
    CASE obj = "http" -> <<ViaCommand("am")>>
      [] obj = "sha" ->
            IF repo = NoRepo THEN <<RaiseHere("TypeError")>>
            ELSE <<ViaCommand("am"), ViaCmd("symbolic-ref", <<>>)>>
      [] OTHER ->
            IF repo = NoRepo THEN <<>> ELSE <<ViaCommand("am")>>
RECURSIVE PlanAm(_, _)
PlanAm(patches, repo) ==
    IF patches = <<>> THEN <<>>
    ELSE PlanPatch(Head(patches), repo) \o PlanAm(Tail(patches), repo)

\* checkout_branch, lines 93-107
PlanCheckoutBranch(cur, name) ==
    IF CurrentBranch(cur) = name
    THEN <<ViaCmd("symbolic-ref", <<>>)>>
    ELSE <<ViaCmd("symbolic-ref", <<>>), ViaCmd("branch", <<>>), ViaCmd("checkout", name)>>

Plan(call, cur) ==
    CASE call.op = "cherry_pick" -> PlanCherryPick(call.items)
      [] call.op = "am" -> PlanAm(call.items, call.repo)
      [] call.op = "checkout_branch" -> PlanCheckoutBranch(cur, call.name)
      [] call.op = "checkout" -> <<ViaCmd("checkout", call.name)>>
      [] call.op = "pull" -> <<ViaCmd("pull", <<>>)>>
      [] OTHER -> <<>>

GitCalls ==
    {[op |-> "cherry_pick", name |-> <<>>, items |-> c, repo |-> NoRepo, entry |-> <<>>] :
        c \in ItemLists({"c"})}
    \cup {[op |-> "am", name |-> <<>>, items |-> ps, repo |-> r, entry |-> <<>>] :
        ps \in ItemLists(PatchKinds), r \in PatchRepos}
    \cup {[op |-> o, name |-> b, items |-> <<>>, repo |-> NoRepo, entry |-> <<>>] :
        o \in {"checkout_branch", "checkout"}, b \in Branches}
    \cup {[op |-> "pull", name |-> <<>>, items |-> <<>>, repo |-> NoRepo, entry |-> <<>>]}

GRaise(exc) == gres' = exc /\ gpc' = "done"
GFinish == gres' = "returned" /\ gpc' = "done"
GLog(via, sub, ok) == glog' = Append(glog, [via |-> via, sub |-> sub, ok |-> ok])

\* a GitRepo method is called
GitCall(call) ==
    /\ gpc = "idle"
    /\ gargs' = [call EXCEPT !.entry = gcur]
    /\ gplan' = Plan(call, gcur)
    /\ glog' = <<>>
    /\ IF Plan(call, gcur) = <<>> THEN GFinish ELSE gpc' = "run" /\ gres' = "none"
    /\ UNCHANGED <<gcur, gstart>>
    /\ UNCHANGED notGit

\* the method runs its next command
GitStep ==
    /\ gpc = "run"
    /\ LET c == Head(gplan)
       IN IF c.via = "raise"
          THEN GRaise(c.sub) /\ UNCHANGED <<gcur, gplan, glog>>
          ELSE \E ok \in BOOLEAN :
                 /\ (ok /\ c.to # <<>>) => c.to \in Branches
                 /\ GLog(c.via, c.sub, ok)
                 /\ IF ok
                    THEN /\ gcur' = IF c.to # <<>> THEN c.to ELSE gcur
                         /\ gplan' = Tail(gplan)
                         /\ IF Tail(gplan) = <<>> THEN GFinish
                            ELSE UNCHANGED <<gpc, gres>>
                    ELSE /\ GRaise(Surfaces(c.via))
                         /\ UNCHANGED <<gcur, gplan>>
    /\ UNCHANGED <<gargs, gstart>>
    /\ UNCHANGED notGit

\* line 201: `with g.branch(name):` is entered
BranchEnter(name) ==
    /\ gpc = "idle"
    /\ gargs' = [op |-> "branch", name |-> name, items |-> <<>>, repo |-> NoRepo,
                 entry |-> gcur]
    /\ gplan' = <<>>
    /\ glog' = <<>>
    /\ gres' = "none"
    /\ gpc' = "B202"
    /\ UNCHANGED <<gcur, gstart>>
    /\ UNCHANGED notGit

\* line 202: starting_branch = self.current_branch()
B202_CurrentBranch ==
    /\ gpc = "B202"
    /\ \E ok \in BOOLEAN :
         /\ GLog("cmd", "symbolic-ref", ok)
         /\ IF ok
            THEN /\ gstart' = CurrentBranch(gcur)
                 /\ gpc' = IF gargs.name # CurrentBranch(gcur) THEN "B205" ELSE "B207"
                 /\ UNCHANGED gres
            ELSE GRaise(Surfaces("cmd")) /\ UNCHANGED gstart
    /\ UNCHANGED <<gcur, gargs, gplan>>
    /\ UNCHANGED notGit

\* lines 204-205: self.checkout(name)
B205_Checkout ==
    /\ gpc = "B205"
    /\ \E ok \in BOOLEAN :
         /\ ok => gargs.name \in Branches
         /\ GLog("cmd", "checkout", ok)
         /\ IF ok
            THEN gcur' = gargs.name /\ gpc' = "B207" /\ UNCHANGED gres
            ELSE GRaise(Surfaces("cmd")) /\ UNCHANGED gcur
    /\ UNCHANGED <<gargs, gstart, gplan>>
    /\ UNCHANGED notGit

\* line 207: yield; the body of the with statement runs.  An exception of the
\* body is thrown into the generator at the yield, which has no try around it
AfterBody(raised, name, starting) ==
    IF raised THEN "done"
    ELSE IF name # starting THEN "B210" ELSE "done"

B207_Body ==
    /\ gpc = "B207"
    /\ \E raised \in BOOLEAN :
         /\ gpc' = AfterBody(raised, gargs.name, gstart)
         /\ gres' = IF raised THEN "BodyError"
                    ELSE IF gpc' = "done" THEN "returned" ELSE gres
    /\ UNCHANGED <<gcur, gargs, gstart, gplan, glog>>
    /\ UNCHANGED notGit

\* lines 209-210: self.checkout(starting_branch)
B210_Restore ==
    /\ gpc = "B210"
    /\ \E ok \in BOOLEAN :
         /\ ok => gstart \in Branches
         /\ GLog("cmd", "checkout", ok)
         /\ IF ok
            THEN gcur' = gstart /\ (IF gres = "none" THEN GFinish ELSE gpc' = "done" /\ UNCHANGED gres)
            ELSE GRaise(Surfaces("cmd")) /\ UNCHANGED gcur
    /\ UNCHANGED <<gargs, gstart, gplan>>
    /\ UNCHANGED notGit

\* the caller takes the outcome
GitReturn ==
    /\ gpc = "done"
    /\ gpc' = "idle"
    /\ gargs' = NoGitCall
    /\ gstart' = <<>>
    /\ gplan' = <<>>
    /\ glog' = <<>>
    /\ gres' = "none"
    /\ UNCHANGED gcur
    /\ UNCHANGED notGit

GitInit ==
    /\ gcur \in Branches
    /\ gpc = "idle"
    /\ gargs = NoGitCall
    /\ gstart = <<>>
    /\ gplan = <<>>
    /\ glog = <<>>
    /\ gres = "none"
    /\ SyncParked
    /\ FilesParked
    /\ RaceParked
    /\ OthersParked

GitNext ==
    \/ \E c \in GitCalls : GitCall(c)
    \/ GitStep
    \/ \E b \in Branches : BranchEnter(b)
    \/ B202_CurrentBranch
    \/ B205_Checkout
    \/ B207_Body
    \/ B210_Restore
    \/ GitReturn

SpecGit == GitInit /\ [][GitNext]_vars

\* --------------------------------------- vocabulary of the claims on git.py
GDone == gpc = "done"
GAllOk == \A i \in 1..Len(glog) : glog[i].ok
Switched == \E i \in 1..Len(glog) : glog[i].sub = "checkout" /\ glog[i].ok

\* C19: when a `with g.branch(name)` scope that switched branches has ended
\* and its git commands succeeded, the repository is on the branch it was on
\* at entry, whether the body completed or raised.
C19_BranchRestored ==
    (GDone /\ gargs.op = "branch" /\ Switched /\ GAllOk) => gcur = gargs.entry

\* C20: a git command that exits non-zero is the last command its GitRepo
\* operation runs, and the operation then raises GitError.
C20_FailureIsGitError ==
    (gargs.op # "" /\ gargs.op # "branch") =>
        \A i \in 1..Len(glog) :
            ~glog[i].ok => (i = Len(glog) /\ GDone /\ gres = "GitError")

\* ============================================= assets_tasks, assets.py
\* ------------------------------------------------------------------ bounds
MaxAssets == 2                  \* most asset specifications in conf.assets
MaxTargets == 2                 \* most content types in one asset's generate

ContentTypes == {"api", "steps"}
AssetNames == {"a", "b"}
Generates == {None} \cup UNION {[1..n -> ContentTypes] : n \in 0..MaxTargets}
\* an entry of conf.assets; None stands for a key the entry does not have
Assets ==
    [path : AssetNames, branch : {Branch}, repository : {RepoURL},
     commit : {None, <<"a">>}, generate : Generates]
Confs ==
    {NoConf} \cup {[none |-> FALSE, assets |-> l] :
                      l \in UNION {[1..n -> Assets] : n \in 0..MaxAssets}}

\* app.add('app'), app.add('task'): the new object, which add appends to the
\* queue of the application it is called on; a task has the fields
\* assets_tasks sets on it, None until set
GenApp == [kind |-> "app"]
NewTask ==
    [kind |-> "task", job |-> "", target |-> <<>>, depends |-> None,
     description |-> None, args |-> <<>>]

\* lines 106-113: the keyword arguments of the assets_setup job
SetupArgs(path, asset) ==
    IF asset.commit # None
    THEN [path |-> path, branch |-> asset.branch, repo |-> asset.repository,
          commit |-> asset.commit]
    ELSE [path |-> path, branch |-> asset.branch, repo |-> asset.repository]

\* lines 101-113: the task that synchronises one asset
SetupTask(path, asset) ==
    [NewTask EXCEPT !.job = "assets_setup",
                    !.target = path,
                    !.depends = None,
                    !.description =
                        <<"setup assets for: ", asset.repository, " in ">> \o path,
                    !.args = SetupArgs(path, asset)]

\* lines 120-124: the task that generates one content type
GenerateTask(path, content_type) ==
    [NewTask EXCEPT !.job = "command",
                    !.target = path,
                    !.depends = None,
                    !.args = <<"cd ">> \o path \o <<"; giza generate ", content_type>>]

\* line 125 calls t.description: the attribute line 105 assigns a string to
Callable(value) == FALSE

TGoto(to) == tpc' = to /\ UNCHANGED tres
TEnd(outcome) == tpc' = "done" /\ tres' = outcome
CurAsset == tconf.assets[ti]
CurPath == Join(ProjectRoot, CurAsset.path)

\* lines 90-93: assets_tasks(conf, app) on a fresh application
AssetsTasks(conf) ==
    /\ tpc = "idle"
    /\ tconf' = conf
    /\ tqueue' = <<>>
    /\ tgen' = <<>>
    /\ ti' = 0
    /\ tj' = 0
    /\ IF conf.none THEN TEnd("returned") ELSE tpc' = "L94" /\ tres' = "none"
    /\ UNCHANGED notPlan

\* line 94: gen_app = app.add('app')
L94_GenApp ==
    /\ tpc = "L94"
    /\ tqueue' = Append(tqueue, GenApp)
    /\ TGoto("L96")
    /\ UNCHANGED <<tconf, tgen, ti, tj>>
    /\ UNCHANGED notPlan

\* line 96: for asset in conf.assets
L96_ForAsset ==
    /\ tpc = "L96"
    /\ IF ti < Len(tconf.assets)
       THEN ti' = ti + 1 /\ TGoto("L101")
       ELSE UNCHANGED ti /\ TEnd("returned")
    /\ UNCHANGED <<tconf, tqueue, tgen, tj>>
    /\ UNCHANGED notPlan

\* lines 97-118: the synchronisation task of the asset
L101_SetupTask ==
    /\ tpc = "L101"
    /\ tqueue' = Append(tqueue, SetupTask(CurPath, CurAsset))
    /\ tj' = 0
    /\ TGoto(IF CurAsset.generate # None THEN "L119" ELSE "L96")
    /\ UNCHANGED <<tconf, tgen, ti>>
    /\ UNCHANGED notPlan

\* line 119: for content_type in asset.generate
L119_ForTarget ==
    /\ tpc = "L119"
    /\ IF tj < Len(CurAsset.generate)
       THEN tj' = tj + 1 /\ TGoto("L120")
       ELSE UNCHANGED tj /\ TGoto("L96")
    /\ UNCHANGED <<tconf, tqueue, tgen, ti>>
    /\ UNCHANGED notPlan

\* lines 120-124: the generation task, added to gen_app
L120_GenerateTask ==
    /\ tpc = "L120"
    /\ tgen' = Append(tgen, GenerateTask(CurPath, CurAsset.generate[tj]))
    /\ TGoto("L125")
    /\ UNCHANGED <<tconf, tqueue, ti, tj>>
    /\ UNCHANGED notPlan

\* line 125: t.description('generating objects in ...')
L125_Describe ==
    /\ tpc = "L125"
    /\ IF Callable(tgen[Len(tgen)].description)
       THEN TGoto("L119")
       ELSE TEnd("TypeError")
    /\ UNCHANGED <<tconf, tqueue, tgen, ti, tj>>
    /\ UNCHANGED notPlan

\* the caller takes the outcome
PlanReturn ==
    /\ tpc = "done"
    /\ tpc' = "idle"
    /\ tconf' = NoConf
    /\ tqueue' = <<>>
    /\ tgen' = <<>>
    /\ ti' = 0
    /\ tj' = 0
    /\ tres' = "none"
    /\ UNCHANGED notPlan

PlanInit ==
    /\ tconf = NoConf
    /\ tpc = "idle"
    /\ tqueue = <<>>
    /\ tgen = <<>>
    /\ ti = 0
    /\ tj = 0
    /\ tres = "none"
    /\ SyncParked
    /\ FilesParked
    /\ RaceParked
    /\ GitParked
    /\ DriverParked
    /\ ApiParked

PlanNext ==
    \/ \E conf \in Confs : AssetsTasks(conf)
    \/ L94_GenApp
    \/ L96_ForAsset
    \/ L101_SetupTask
    \/ L119_ForTarget
    \/ L120_GenerateTask
    \/ L125_Describe
    \/ PlanReturn

SpecPlan == PlanInit /\ [][PlanNext]_vars

\* ---------------------------------- vocabulary of the claim on assets_tasks
PlanDone == tpc = "done"
SetupTasks == SelectSeq(tqueue, LAMBDA e : e.kind = "task")
TargetsOf(asset) == IF asset.generate = None THEN <<>> ELSE asset.generate
GenerateTasksFor(name) ==
    SelectSeq(tgen, LAMBDA t : t.target = Join(ProjectRoot, name))
RECURSIVE CountTargets(_, _)
CountTargets(assets, name) ==
    IF assets = <<>> THEN 0
    ELSE (IF Head(assets).path = name THEN Len(TargetsOf(Head(assets))) ELSE 0)
         + CountTargets(Tail(assets), name)

\* C21: when assets_tasks is over it has returned, the application holds one
\* assets_setup task per asset, in the order of the list, with the asset's
\* path, branch and repository and with a commit argument exactly when the
\* asset declares one, and gen_app holds one task per generation target of
\* each path.  (That a generation task runs after the synchronisation of its
\* path is left out: the statement fails without it.)
C21_OneTaskPerAsset ==
    (PlanDone /\ ~tconf.none) =>
        /\ tres = "returned"
        /\ Len(SetupTasks) = Len(tconf.assets)
        /\ \A i \in 1..Len(tconf.assets) :
             LET t == SetupTasks[i]
                 a == tconf.assets[i]
             IN /\ t.job = "assets_setup"
                /\ t.args.path = Join(ProjectRoot, a.path)
                /\ t.args.branch = a.branch
                /\ t.args.repo = a.repository
                /\ ("commit" \in DOMAIN t.args) <=> (a.commit # None)
                /\ a.commit # None => t.args.commit = a.commit
        /\ \A name \in AssetNames :
             Len(GenerateTasksFor(name)) = CountTargets(tconf.assets, name)

\* -------------------------- safe_create_directory on a path that is a file
\* C22: a safe_create_directory call on a path occupied by a plain file ends
\* by re-raising the OSError of os.makedirs, and the file is as it was.
C22_FileConflictReraises ==
    \A p \in Procs :
        (rpc[p] = "done" /\ rpre[rpath].kind = "file") =>
            /\ rres[p] = "OSError"
            /\ rdisk[rpath] = rpre[rpath]

\* ================================================== the test driver, test.py
Users ==
    [toolchain : {"giza", "legacy"}, matched : BOOLEAN, build_exists : BOOLEAN]

\* exit(n); an exception no handler catches ends the interpreter with status 1
Exit(n) == [status |-> n, uncaught |-> FALSE]
Uncaught == [status |-> 1, uncaught |-> TRUE]
ReturnCodes == {0, 2}

\* a try statement with several `except CommandError` clauses: the first one
\* handles a CommandError of the try body; one raised inside that handler is
\* outside the try body and no clause of the statement handles it
Handler(body, first, second, raised_at) ==
    IF raised_at = body THEN first ELSE "uncaught"

DRun(line, ok) == dcmds' = Append(dcmds, [line |-> line, ok |-> ok])
DLogs(lines) == dlog' = dlog \o lines
DGoto(to) ==
    IF to = "uncaught" THEN dpc' = "ended" /\ dexit' = Uncaught
    ELSE dpc' = to /\ UNCHANGED dexit
DExit(n) == dpc' = "ended" /\ dexit' = Exit(n)

\* command(...) at a line: on exit 0 log and go on, else CommandError
DCommand(line, okLogs, to, onFailure) ==
    \E ok \in BOOLEAN :
        /\ DRun(line, ok)
        /\ IF ok THEN DLogs(okLogs) /\ DGoto(to)
           ELSE UNCHANGED dlog /\ DGoto(onFailure)

\* lines 42-48
L45_CheckProject ==
    /\ dpc = "L45"
    /\ IF ~duser.matched
       THEN DLogs(<<47>>) /\ DExit(1)
       ELSE UNCHANGED dlog /\ DGoto("L59")
    /\ UNCHANGED <<duser, dcmds>>
    /\ UNCHANGED notDriver

\* lines 50-60: the two commands run with ignore=True
L59_Remotes ==
    /\ dpc = "L59"
    /\ \E ok1, ok2 \in BOOLEAN :
         dcmds' = dcmds \o <<[line |-> 59, ok |-> ok1], [line |-> 60, ok |-> ok2]>>
    /\ DGoto("L62")
    /\ UNCHANGED <<duser, dlog>>
    /\ UNCHANGED notDriver

\* lines 62-67
L62_Clone ==
    /\ dpc = "L62"
    /\ IF duser.build_exists
       THEN DLogs(<<63>>) /\ DGoto("L69") /\ UNCHANGED dcmds
       ELSE \E ok \in BOOLEAN :
              /\ DRun(66, ok)
              /\ IF ok THEN DLogs(<<65, 67>>) /\ DGoto("L69")
                 ELSE DLogs(<<65>>) /\ DGoto("uncaught")
    /\ UNCHANGED duser
    /\ UNCHANGED notDriver

\* lines 69-70
L69_Toolchain ==
    /\ dpc = "L69"
    /\ DGoto(IF duser.toolchain = "giza" THEN "L73" ELSE "L85")
    /\ UNCHANGED <<duser, dcmds, dlog>>
    /\ UNCHANGED notDriver

\* lines 72-73: the try body
L73_Install ==
    /\ dpc = "L73"
    /\ DCommand(73, <<>>, "L82", Handler("L73", "L75", "L77", "L73"))
    /\ UNCHANGED duser
    /\ UNCHANGED notDriver

\* lines 74-75: the first except clause
L75_InstallAgain ==
    /\ dpc = "L75"
    /\ DCommand(75, <<>>, "L82", Handler("L73", "L75", "L77", "L75"))
    /\ UNCHANGED duser
    /\ UNCHANGED notDriver

\* lines 82-83
L82_Installed ==
    /\ dpc = "L82"
    /\ DLogs(<<83>>)
    /\ DGoto("L85")
    /\ UNCHANGED <<duser, dcmds>>
    /\ UNCHANGED notDriver

\* lines 85-89
L88_Fetch ==
    /\ dpc = "L85"
    /\ DCommand(88, <<89>>, "L92", "uncaught")
    /\ UNCHANGED duser
    /\ UNCHANGED notDriver

\* lines 91-92: the try body
L92_Checkout ==
    /\ dpc = "L92"
    /\ DCommand(92, <<>>, "L99", Handler("L92", "L94", "L96", "L92"))
    /\ UNCHANGED duser
    /\ UNCHANGED notDriver

\* lines 93-94: the first except clause
L94_CheckoutNew ==
    /\ dpc = "L94"
    /\ DCommand(94, <<>>, "L99", Handler("L92", "L94", "L96", "L94"))
    /\ UNCHANGED duser
    /\ UNCHANGED notDriver

\* lines 99-100
L99_Reset ==
    /\ dpc = "L99"
    /\ DCommand(99, <<100>>, "L101", "uncaught")
    /\ UNCHANGED duser
    /\ UNCHANGED notDriver

\* lines 101-104
L101_Pull ==
    /\ dpc = "L101"
    /\ DCommand(101, <<102>>, "L106", "uncaught")
    /\ UNCHANGED duser
    /\ UNCHANGED notDriver

\* lines 106-131: giza quickstart, or python bootstrap.py safe
L106_Bootstrap ==
    /\ dpc = "L106"
    /\ IF duser.toolchain = "giza"
       THEN DCommand(113, <<112, 114>>, "L133", "uncaught")
       ELSE DCommand(130, <<129, 131>>, "L133", "uncaught")
    /\ UNCHANGED duser
    /\ UNCHANGED notDriver

\* lines 133-139, 162-171: make publish with ignore=True, exit(return_code)
L133_Publish ==
    /\ dpc = "L133"
    /\ \E rc \in ReturnCodes :
         /\ DRun(133, rc = 0)
         /\ DLogs(<<135, 163, IF rc # 0 THEN 166 ELSE 168>>)
         /\ DExit(rc)
    /\ UNCHANGED duser
    /\ UNCHANGED notDriver

DriverInit ==
    /\ duser \in Users
    /\ dpc = "L45"
    /\ dcmds = <<>>
    /\ dlog = <<>>
    /\ dexit = Running
    /\ SyncParked
    /\ FilesParked
    /\ RaceParked
    /\ GitParked
    /\ PlanParked
    /\ ApiParked

DriverNext ==
    \/ L45_CheckProject
    \/ L59_Remotes
    \/ L62_Clone
    \/ L69_Toolchain
    \/ L73_Install
    \/ L75_InstallAgain
    \/ L82_Installed
    \/ L88_Fetch
    \/ L92_Checkout
    \/ L94_CheckoutNew
    \/ L99_Reset
    \/ L101_Pull
    \/ L106_Bootstrap
    \/ L133_Publish

SpecDriver == DriverInit /\ [][DriverNext]_vars

\* -------------------------------------- vocabulary of the claim on test.py
InstallLines == {73, 75, 77}
Installs == SelectSeq(dcmds, LAMBDA c : c.line \in InstallLines)
InstallFailed ==
    /\ dcmds # <<>>
    /\ dcmds[Len(dcmds)].line \in InstallLines
    /\ ~dcmds[Len(dcmds)].ok
Logged(line) == \E i \in 1..Len(dlog) : dlog[i] = line

\* C23: with the giza toolchain, once an installation attempt has failed and
\* the script is not about to run the next one, three attempts have been made
\* and have failed, the script has logged the failure after three attempts
\* (line 79) and has ended with status 1; an attempt that succeeds is the
\* last one and the run goes on.
C23_ThreeInstallAttempts ==
    /\ (InstallFailed /\ dpc = "ended") =>
          /\ Len(Installs) = 3
          /\ Logged(79)
          /\ dexit.status = 1
    /\ \A i \in 1..Len(Installs) : Installs[i].ok => i = Len(Installs)
    /\ (dcmds # <<>> /\ dcmds[Len(dcmds)].line \in InstallLines
                       /\ dcmds[Len(dcmds)].ok) => dpc = "L82"

\* ------------------------------------------------ what create_link leaves
\* C24: when create_link(source, target) has returned, the target is a
\* symbolic link whose destination is the source.
C24_LinkPointsToSource ==
    (FReturned /\ fargs.op = "create_link") =>
        LStat(disk, fargs.cwd, fargs.target) = LinkNode(fargs.source)

\* ===================================== ApiArgData, content/apiargs/models.py
\* A string is the sequence of its characters.

\* ------------------------------------------------------------------ bounds
MaxText == 2                    \* longest description text, in characters

Chars == {"O", "x"}
Texts == UNION {[1..n -> Chars] : n \in 0..MaxText}
OptionalPrefix == <<"O", "p", "t", "i", "o", "n", "a", "l", ".", " ">>
\* line 46: the index the slice value[11:] starts at
SliceFrom == 11

\* the values assigned to description: a string, a list of strings, a number
StrValue(text) == [type |-> "str", lines |-> <<text>>]
ListValue(lines) == [type |-> "list", lines |-> lines]
IntValue == [type |-> "int", lines |-> <<>>]
Values ==
    {StrValue(t) : t \in Texts} \cup {StrValue(OptionalPrefix \o t) : t \in Texts}
    \cup {ListValue(<<OptionalPrefix, t>>) : t \in Texts} \cup {IntValue}

\* '\n'.join(lines)
RECURSIVE JoinLines(_)
JoinLines(lines) ==
    IF lines = <<>> THEN <<>>
    ELSE IF Len(lines) = 1 THEN Head(lines)
    ELSE Head(lines) \o <<"\n">> \o JoinLines(Tail(lines))

\* value[n:], with indexes from 0
SliceFromIndex(value, n) == SubSeq(value, n + 1, Len(value))

\* dict assignment
DictSet(dict, key, value) ==
    [k \in DOMAIN dict \cup {key} |-> IF k = key THEN value ELSE dict[k]]

\* lines 147-152: the optional property
Optional(state) == "optional" \in DOMAIN state

\* lines 154-159: the setter of optional
SetOptionalState(state, value) == DictSet(state, "optional", value)

\* lines 37-49: the setter of description; exc is "none" or the exception
SetDescriptionState(state, value) ==
    LET text == IF value.type = "list" THEN JoinLines(value.lines)
                ELSE IF value.type = "str" THEN value.lines[1]
                ELSE <<>>
    IN IF value.type \notin {"list", "str"}
       THEN [exc |-> "TypeError", state |-> state]
       ELSE IF StartsWith(text, OptionalPrefix)
       THEN [exc |-> "none",
             state |-> DictSet(SetOptionalState(state, TRUE), "description",
                               SliceFromIndex(text, SliceFrom))]
       ELSE [exc |-> "none", state |-> DictSet(state, "description", text)]

\* lines 30-35: the getter of description
GetDescription(state) ==
    IF "description" \notin DOMAIN state THEN [exc |-> "KeyError", text |-> <<>>]
    ELSE IF Optional(state)
    THEN [exc |-> "none", text |-> OptionalPrefix \o state["description"]]
    ELSE [exc |-> "none", text |-> state["description"]]

\* ApiArgData(): a new object
NewApiArg ==
    /\ apc # "new"
    /\ astate' = EmptyDict
    /\ apc' = "new"
    /\ agiven' = NoValue
    /\ aread' = NoRead
    /\ UNCHANGED notApi

\* obj.optional = value
SetOptional(value) ==
    /\ astate' = SetOptionalState(astate, value)
    /\ apc' = "used"
    /\ UNCHANGED <<agiven, aread>>
    /\ UNCHANGED notApi

\* obj.description = value
SetDescription(value) ==
    /\ astate' = SetDescriptionState(astate, value).state
    /\ apc' = IF apc = "new" /\ SetDescriptionState(astate, value).exc = "none"
              THEN "set" ELSE "used"
    /\ agiven' = value
    /\ aread' = NoRead
    /\ UNCHANGED notApi

\* obj.description is read
ReadDescription ==
    /\ aread' = GetDescription(astate)
    /\ apc' = IF apc = "set" THEN "read" ELSE "used"
    /\ UNCHANGED <<astate, agiven>>
    /\ UNCHANGED notApi

ApiInit ==
    /\ astate = EmptyDict
    /\ apc = "new"
    /\ agiven = NoValue
    /\ aread = NoRead
    /\ SyncParked
    /\ FilesParked
    /\ RaceParked
    /\ GitParked
    /\ PlanParked
    /\ DriverParked

ApiNext ==
    \/ NewApiArg
    \/ \E v \in BOOLEAN : SetOptional(v)
    \/ \E v \in Values : SetDescription(v)
    \/ ReadDescription

SpecApi == ApiInit /\ [][ApiNext]_vars

\* C25: on a new ApiArgData, after a string is assigned to description and
\* description is read, the read gives the string assigned; if the string
\* was 'Optional. ' followed by d, the object is optional and stores d.
C25_DescriptionRoundTrip ==
    (apc \in {"set", "read"} /\ agiven.type = "str") =>
        LET given == agiven.lines[1]
        IN /\ apc = "read" => (aread.exc = "none" /\ aread.text = given)
           /\ StartsWith(given, OptionalPrefix) =>
                 /\ Optional(astate)
                 /\ OptionalPrefix \o astate["description"] = given
           /\ ~StartsWith(given, OptionalPrefix) => astate["description"] = given
====
